---- MODULE Spec2Model ----
(***************************************************************************)
(* A model of iptables.py: a wrapper that runs the iptables command,       *)
(* tokenizes its line-oriented output with shlex and exposes tables,       *)
(* chains and rules.  Strings are sequences of one-character strings, so   *)
(* joining, line splitting and shell-word splitting are computed, not      *)
(* assumed.  The output of cmd is a text string (an instance of            *)
(* six.string_types, as subprocess returns it for the str type the module  *)
(* was written for), so Rule(line) takes the shlex branch.                 *)
(***************************************************************************)
EXTENDS Integers, Sequences, FiniteSets, TLC

VARIABLES policy, chainlist, rules, res, prev

vars == <<policy, chainlist, rules, res, prev>>

----------------------------------------------------------------------------
(* Bounds of the model.                                                    *)

\* Rules the table holds at most (the guard of the rule-adding actions).
MaxRules == 2
\* Tokens of a token sequence handed to Rule.
MaxTokens == 2
\* Lines of a listing handed to the listing parsers.
MaxLines == 3

----------------------------------------------------------------------------
(* Characters and strings.                                                 *)

SP == " "
NL == "\n"
SQ == "'"
DQ == "\""
BS == "\\"

\* shlex.whitespace, restricted to the characters the model uses.
whitespace == {SP, NL}
\* shlex.quotes, shlex.escape and shlex.escapedquotes (posix mode).
quotes == {SQ, DQ}
escape == {BS}
escapedquotes == {DQ}

RECURSIVE Concat(_)
\* The concatenation of a sequence of strings.
Concat(ss) == IF ss = <<>> THEN <<>> ELSE Head(ss) \o Concat(Tail(ss))

RECURSIVE Join(_, _)
\* sep.join(toks)
Join(sep, toks) ==
    IF toks = <<>> THEN <<>>
    ELSE IF Len(toks) = 1 THEN toks[1]
    ELSE toks[1] \o sep \o Join(sep, Tail(toks))

RECURSIVE SplitAt(_, _, _, _)
SplitAt(s, i, cur, out) ==
    IF i > Len(s) THEN (IF cur = <<>> THEN out ELSE Append(out, cur))
    ELSE IF s[i] = NL THEN SplitAt(s, i + 1, <<>>, Append(out, cur))
    ELSE SplitAt(s, i + 1, Append(cur, s[i]), out)

\* str.splitlines(): the lines of s without their line ends; a final line
\* end opens no further line.
splitlines(s) == SplitAt(s, 1, <<>>, <<>>)

----------------------------------------------------------------------------
(* shlex.split(s): posix mode, whitespace_split, no comment characters.    *)
(* state is " " (between tokens), "a" (in a word), a quote or the escape   *)
(* character, as in shlex.read_token.  The result is [ok, toks]; ok FALSE  *)
(* is the ValueError of an open quotation or a trailing escape.            *)

RECURSIVE Lex(_, _, _, _, _, _, _)
Lex(s, i, state, escapedstate, token, quoted, out) ==
    IF i > Len(s) THEN
        IF state \in quotes \/ state \in escape
            THEN [ok |-> FALSE, toks |-> <<>>]
        ELSE IF state = "a" /\ (token # <<>> \/ quoted)
            THEN [ok |-> TRUE, toks |-> Append(out, token)]
        ELSE [ok |-> TRUE, toks |-> out]
    ELSE LET c == s[i] IN
        IF state = " " THEN
            IF c \in whitespace
                THEN Lex(s, i + 1, " ", escapedstate, <<>>, FALSE, out)
            ELSE IF c \in escape
                THEN Lex(s, i + 1, c, "a", <<>>, FALSE, out)
            ELSE IF c \in quotes
                THEN Lex(s, i + 1, c, escapedstate, <<>>, FALSE, out)
            ELSE Lex(s, i + 1, "a", escapedstate, <<c>>, FALSE, out)
        ELSE IF state \in quotes THEN
            IF c = state
                THEN Lex(s, i + 1, "a", escapedstate, token, TRUE, out)
            ELSE IF c \in escape /\ state \in escapedquotes
                THEN Lex(s, i + 1, c, state, token, TRUE, out)
            ELSE Lex(s, i + 1, state, escapedstate, Append(token, c), TRUE, out)
        ELSE IF state \in escape THEN
            LET kept == IF escapedstate \in quotes /\ c # state /\ c # escapedstate
                        THEN Append(token, state) ELSE token
            IN Lex(s, i + 1, escapedstate, escapedstate, Append(kept, c), quoted, out)
        ELSE \* state = "a"
            IF c \in whitespace THEN
                IF token # <<>> \/ quoted
                    THEN Lex(s, i + 1, " ", escapedstate, <<>>, FALSE, Append(out, token))
                ELSE Lex(s, i + 1, " ", escapedstate, <<>>, FALSE, out)
            ELSE IF c \in quotes
                THEN Lex(s, i + 1, c, escapedstate, token, quoted, out)
            ELSE IF c \in escape
                THEN Lex(s, i + 1, c, "a", token, quoted, out)
            ELSE Lex(s, i + 1, "a", escapedstate, Append(token, c), quoted, out)

shlex_split(s) == Lex(s, 1, " ", " ", <<>>, FALSE, <<>>)

----------------------------------------------------------------------------
(* Outcomes of a call: a returned value or a raised exception.             *)

Return(v) == [kind |-> "return", val |-> v]
Raise(e) == [kind |-> e, val |-> <<>>]

\* class CommandError: the exception and the four fields it carries.
CommandError(command, returncode, stdout, stderr) ==
    [kind |-> "CommandError",
     val |-> [command |-> command, returncode |-> returncode,
              stdout |-> stdout, stderr |-> stderr]]

----------------------------------------------------------------------------
(* class Rule(tuple).                                                      *)

\* Rule(string) without the string branch: tuple(string), a token per
\* character.
RuleFromString_NoSplit(s) == Return([i \in DOMAIN s |-> <<s[i]>>])

\* Rule(string): the tokens of shlex.split(string), or its ValueError.
RuleFromString(s) ==
    LET sp == shlex_split(s)
    IN IF sp.ok THEN Return(sp.toks) ELSE Raise("ValueError")

\* Rule(sequence): the tuple of the sequence, as it is.
RuleFromTokens(toks) == Return(toks)

\* Rule.__str__
RuleStr(rule) == Join(<<SP>>, rule)

----------------------------------------------------------------------------
(* Tokens.                                                                 *)

iptables == <<"i", "p", "t", "a", "b", "l", "e", "s">>
filter == <<"f", "i", "l", "t", "e", "r">>
INPUT == <<"I", "N", "P", "U", "T">>
LOGGING == <<"L", "O", "G", "G", "I", "N", "G">>
ACCEPT == <<"A", "C", "C", "E", "P", "T">>
DROP == <<"D", "R", "O", "P">>
\* An option token: Opt("A") is -A.
Opt(c) == <<"-", c>>

\* An absent optional argument (None) and a present one.
None == <<>>
Some(x) == <<x>>

digits == <<"0", "1", "2", "3", "4", "5", "6", "7", "8", "9">>
\* str(pos) of a position below ten.
PosStr(n) == <<digits[n + 1]>>

Range(f) == {f[i] : i \in DOMAIN f}

----------------------------------------------------------------------------
(* The iptables command, as far as the wrapper observes it: the table it   *)
(* keeps (fw: the policy of each built-in chain, the user chains in        *)
(* creation order, the rules of each chain) and, per invocation, the exit  *)
(* status and the two output streams.                                      *)

BuiltinChains == <<INPUT>>
ChainNames == {INPUT, LOGGING}
Policies == {ACCEPT, DROP}

ErrMsg == <<"i", "p", "t", "a", "b", "l", "e", "s", ":", SP, "e", "r", "r", "o", "r", NL>>

ToolOK(fw, out) == [fw |-> fw, returncode |-> 0, out |-> out, err |-> <<>>]
\* Exit 1: the operation failed; exit 2: a parameter problem.
ToolFail(fw) == [fw |-> fw, returncode |-> 1, out |-> <<>>, err |-> ErrMsg]
ToolBadParam(fw) == [fw |-> fw, returncode |-> 2, out |-> <<>>, err |-> ErrMsg]

IsBuiltin(c) == c \in Range(BuiltinChains)
ChainPresent(fw, c) == IsBuiltin(c) \/ c \in Range(fw.chainlist)

\* A rule the command accepts in chain c: a jump to a built-in target or to
\* another user chain that exists (a chain that jumps to itself is a loop).
ValidRule(fw, c, r) ==
    /\ Len(r) = 2
    /\ r[1] = Opt("j")
    /\ r[2] \in Policies \cup (Range(fw.chainlist) \ {c})

Referenced(fw, c) ==
    \E d \in ChainNames : \E i \in DOMAIN fw.rules[d] : fw.rules[d][i] = <<Opt("j"), c>>

IsPos(tok) == Len(tok) = 1 /\ tok[1] \in Range(digits)
PosOf(tok) == CHOOSE n \in 0..9 : PosStr(n) = tok

RemoveAt(s, i) == SubSeq(s, 1, i - 1) \o SubSeq(s, i + 1, Len(s))
InsertAt(s, i, x) == SubSeq(s, 1, i - 1) \o <<x>> \o SubSeq(s, i, Len(s))
FirstIndex(s, x) == CHOOSE i \in DOMAIN s : s[i] = x /\ \A j \in 1..(i - 1) : s[j] # x

\* The lines -S prints for the chains in sel: a -P line per built-in
\* chain, a -N line per user chain, then an -A line per rule.
ListingLines(fw, sel) ==
    LET builtins == SelectSeq(BuiltinChains, LAMBDA c : c \in sel)
        users == SelectSeq(fw.chainlist, LAMBDA c : c \in sel)
        heads == [i \in DOMAIN builtins |->
                     Join(<<SP>>, <<Opt("P"), builtins[i], fw.policy[builtins[i]]>>)]
                 \o [i \in DOMAIN users |-> Join(<<SP>>, <<Opt("N"), users[i]>>)]
        all == builtins \o users
        body(c) == [i \in DOMAIN fw.rules[c] |->
                       Join(<<SP>>, <<Opt("A"), c>> \o fw.rules[c][i])]
    IN heads \o Concat([i \in DOMAIN all |-> body(all[i])])

Listing(fw, sel) ==
    LET ls == ListingLines(fw, sel)
    IN Concat([i \in DOMAIN ls |-> ls[i] \o <<NL>>])

SetRules(fw, c, rs) == [fw EXCEPT !.rules[c] = rs]

\* iptables -w -t <table> <args>: the new table, the exit status, stdout
\* and stderr.
Iptables(fw, args) ==
    LET sub == args[1]
        n == Len(args)
        c == args[2]
        rest == SubSeq(args, 3, n)
    IN
    IF n = 1 THEN
        CASE sub = Opt("S") -> ToolOK(fw, Listing(fw, ChainNames))
          [] sub = Opt("F") -> ToolOK([fw EXCEPT !.rules = [d \in ChainNames |-> <<>>]], <<>>)
          [] sub = Opt("Z") -> ToolOK(fw, <<>>)
          [] OTHER -> ToolBadParam(fw)
    ELSE IF sub = Opt("N") THEN
        IF ChainPresent(fw, c) THEN ToolFail(fw)
        ELSE ToolOK([fw EXCEPT !.chainlist = Append(@, c)], <<>>)
    ELSE IF ~ChainPresent(fw, c) THEN ToolFail(fw)
    ELSE
        CASE sub = Opt("S") -> ToolOK(fw, Listing(fw, {c}))
          [] sub = Opt("F") -> ToolOK(SetRules(fw, c, <<>>), <<>>)
          [] sub = Opt("Z") -> ToolOK(fw, <<>>)
          [] sub = Opt("X") ->
                IF IsBuiltin(c) \/ fw.rules[c] # <<>> \/ Referenced(fw, c)
                THEN ToolFail(fw)
                ELSE ToolOK([fw EXCEPT !.chainlist = SelectSeq(@, LAMBDA d : d # c)], <<>>)
          [] sub = Opt("P") ->
                IF n # 3 \/ rest[1] \notin Policies THEN ToolBadParam(fw)
                ELSE IF ~IsBuiltin(c) THEN ToolFail(fw)
                ELSE ToolOK([fw EXCEPT !.policy[c] = rest[1]], <<>>)
          [] sub = Opt("C") ->
                IF ~ValidRule(fw, c, rest) THEN ToolBadParam(fw)
                ELSE IF rest \in Range(fw.rules[c]) THEN ToolOK(fw, <<>>)
                ELSE ToolFail(fw)
          [] sub = Opt("A") ->
                IF ~ValidRule(fw, c, rest) THEN ToolBadParam(fw)
                ELSE ToolOK(SetRules(fw, c, Append(fw.rules[c], rest)), <<>>)
          [] sub = Opt("I") ->
                IF n < 3 \/ ~IsPos(rest[1]) \/ ~ValidRule(fw, c, Tail(rest))
                THEN ToolBadParam(fw)
                ELSE IF PosOf(rest[1]) \notin 1..(Len(fw.rules[c]) + 1) THEN ToolFail(fw)
                ELSE ToolOK(SetRules(fw, c, InsertAt(fw.rules[c], PosOf(rest[1]), Tail(rest))), <<>>)
          [] sub = Opt("R") ->
                IF n < 3 \/ ~IsPos(rest[1]) \/ ~ValidRule(fw, c, Tail(rest))
                THEN ToolBadParam(fw)
                ELSE IF PosOf(rest[1]) \notin 1..Len(fw.rules[c]) THEN ToolFail(fw)
                ELSE ToolOK(SetRules(fw, c, [fw.rules[c] EXCEPT ![PosOf(rest[1])] = Tail(rest)]), <<>>)
          [] sub = Opt("D") ->
                IF n = 3 /\ IsPos(rest[1]) THEN
                    IF PosOf(rest[1]) \notin 1..Len(fw.rules[c]) THEN ToolFail(fw)
                    ELSE ToolOK(SetRules(fw, c, RemoveAt(fw.rules[c], PosOf(rest[1]))), <<>>)
                ELSE IF ~ValidRule(fw, c, rest) THEN ToolBadParam(fw)
                ELSE IF rest \notin Range(fw.rules[c]) THEN ToolFail(fw)
                ELSE ToolOK(SetRules(fw, c, RemoveAt(fw.rules[c], FirstIndex(fw.rules[c], rest))), <<>>)
          [] OTHER -> ToolBadParam(fw)

\* What may befall the process whatever its arguments: nothing (it runs as
\* above), or a kill by signal 9 (Popen reports -9, and no output at all).
NoFault == [returncode |-> 0, err |-> <<>>]
Killed == [returncode |-> -9, err |-> <<>>]
Faults == {NoFault, Killed}

\* subprocess.Popen(args).communicate(): the process run to its end.
Popen(fw, argv, nprefix, fault) ==
    IF fault = NoFault THEN Iptables(fw, SubSeq(argv, nprefix + 1, Len(argv)))
    ELSE [fw |-> fw, returncode |-> fault.returncode, out |-> <<>>, err |-> fault.err]

----------------------------------------------------------------------------
(* The function cmd.                                                      *)

\* The part of cmd after communicate(): the failure summary is built from
\* err.splitlines()[0] before CommandError is raised.
CmdOutcome(args, returncode, out, err) ==
    IF returncode # 0 THEN
        IF splitlines(err) = <<>> THEN Raise("IndexError")
        ELSE CommandError(args, returncode, out, err)
    ELSE Return(out)

\* The result of a step: its outcome, the table afterwards and the
\* invocations of cmd it made, each with what the process did and what cmd
\* made of it.
Step(outcome, fw, calls) == [outcome |-> outcome, fw |-> fw, calls |-> calls]

\* What cmd makes of the finished process p.
CmdStep(args, fault, p) ==
    Step(CmdOutcome(args, p.returncode, p.out, p.err), p.fw,
         <<[argv |-> args, returncode |-> p.returncode, stdout |-> p.out,
            stderr |-> p.err, fault |-> fault,
            outcome |-> CmdOutcome(args, p.returncode, p.out, p.err)]>>)

\* cmd called with the argument vector args, against the table fw.
cmd(fw, args, nprefix, fault) == CmdStep(args, fault, Popen(fw, args, nprefix, fault))

----------------------------------------------------------------------------
(* class Table: its name, its optional network namespace, and iptables,    *)
(* the partial application of cmd to the command prefix.                   *)

Table(name, netns) == [name |-> name, netns |-> netns]

\* The prefix Table.__init__ builds.
Prefix(table) ==
    (IF table.netns # None
     THEN <<<<"i", "p">>, <<"n", "e", "t", "n", "s">>, <<"e", "x", "e", "c">>, table.netns[1]>>
     ELSE <<>>)
    \o <<iptables, Opt("w"), Opt("t"), table.name>>

\* self.iptables(args)
Table_iptables(fw, table, args, fault) ==
    cmd(fw, Prefix(table) \o args, Len(Prefix(table)), fault)

\* A method that returns nothing: None on success, the exception otherwise.
Discard(s) == IF s.outcome.kind = "return" THEN Step(Return(None), s.fw, s.calls) ELSE s

----------------------------------------------------------------------------
(* class Chain.  A generator is modelled by the list its consumer gets, or *)
(* by the exception that ends the iteration.  Each method is the           *)
(* invocation it makes and what it does with the step s that comes back.   *)

Chain(name, table) == [name |-> name, table |-> table]

RECURSIVE RulesOfLines_KeepChain(_, _)
\* The loop of Chain.rules stripping the marker only (rule[1:]).
RulesOfLines_KeepChain(lines, acc) ==
    IF lines = <<>> THEN Return(acc)
    ELSE LET rule == RuleFromString(Head(lines)) IN
        IF rule.kind # "return" THEN rule
        ELSE IF rule.val = <<>> THEN Raise("IndexError")
        ELSE IF rule.val[1] # Opt("A") THEN RulesOfLines_KeepChain(Tail(lines), acc)
        ELSE RulesOfLines_KeepChain(Tail(lines), Append(acc, Tail(rule.val)))

RECURSIVE RulesOfLines(_, _)
\* The loop of Chain.rules over the lines of the listing.
RulesOfLines(lines, acc) ==
    IF lines = <<>> THEN Return(acc)
    ELSE LET rule == RuleFromString(Head(lines)) IN
        IF rule.kind # "return" THEN rule
        ELSE IF rule.val = <<>> THEN Raise("IndexError")
        ELSE IF rule.val[1] # Opt("A") THEN RulesOfLines(Tail(lines), acc)
        ELSE RulesOfLines(Tail(lines), Append(acc, SubSeq(rule.val, 3, Len(rule.val))))

RulesStep(s) ==
    IF s.outcome.kind # "return" THEN s
    ELSE Step(RulesOfLines(splitlines(s.outcome.val), <<>>), s.fw, s.calls)

Chain_rules(fw, chain, fault) ==
    RulesStep(Table_iptables(fw, chain.table, <<Opt("S"), chain.name>>, fault))

\* The try statement of Chain.rule_exists with the test of the status
\* inverted: status 1 is raised again, any other is False.
RuleExistsStep_Inverted(s) ==
    IF s.outcome.kind = "CommandError" THEN
        IF s.outcome.val.returncode = 1 THEN s
        ELSE Step(Return(FALSE), s.fw, s.calls)
    ELSE IF s.outcome.kind = "return" THEN Step(Return(TRUE), s.fw, s.calls)
    ELSE s

\* The try statement of Chain.rule_exists.
RuleExistsStep(s) ==
    IF s.outcome.kind = "CommandError" THEN
        IF s.outcome.val.returncode # 1 THEN s
        ELSE Step(Return(FALSE), s.fw, s.calls)
    ELSE IF s.outcome.kind = "return" THEN Step(Return(TRUE), s.fw, s.calls)
    ELSE s

Chain_rule_exists(fw, chain, rule, fault) ==
    RuleExistsStep(Table_iptables(fw, chain.table, <<Opt("C"), chain.name>> \o rule, fault))

RECURSIVE PolicyOfLines_ChainToken(_)
\* The loop of the policy getter returning rule[1], the chain name.
PolicyOfLines_ChainToken(lines) ==
    IF lines = <<>> THEN Raise("ValueError")
    ELSE LET rule == RuleFromString(Head(lines)) IN
        IF rule.kind # "return" THEN rule
        ELSE IF rule.val = <<>> THEN Raise("IndexError")
        ELSE IF rule.val[1] = Opt("P") THEN
            IF Len(rule.val) < 2 THEN Raise("IndexError") ELSE Return(rule.val[2])
        ELSE PolicyOfLines_ChainToken(Tail(lines))

RECURSIVE PolicyOfLines(_)
\* The loop of the policy getter over the lines of the listing.
PolicyOfLines(lines) ==
    IF lines = <<>> THEN Raise("ValueError")
    ELSE LET rule == RuleFromString(Head(lines)) IN
        IF rule.kind # "return" THEN rule
        ELSE IF rule.val = <<>> THEN Raise("IndexError")
        ELSE IF rule.val[1] = Opt("P") THEN
            IF Len(rule.val) < 3 THEN Raise("IndexError") ELSE Return(rule.val[3])
        ELSE PolicyOfLines(Tail(lines))

PolicyStep(s) ==
    IF s.outcome.kind # "return" THEN s
    ELSE Step(PolicyOfLines(splitlines(s.outcome.val)), s.fw, s.calls)

\* Chain.policy, read.
Chain_policy(fw, chain, fault) ==
    PolicyStep(Table_iptables(fw, chain.table, <<Opt("S"), chain.name>>, fault))

\* Chain.policy, assigned.
Chain_policy_set(fw, chain, value, fault) ==
    Discard(Table_iptables(fw, chain.table, <<Opt("P"), chain.name, value>>, fault))

Chain_append(fw, chain, rule, fault) ==
    Discard(Table_iptables(fw, chain.table, <<Opt("A"), chain.name>> \o rule, fault))

Chain_insert(fw, chain, rule, pos, fault) ==
    Discard(Table_iptables(fw, chain.table, <<Opt("I"), chain.name, PosStr(pos)>> \o rule, fault))

Chain_replace(fw, chain, pos, rule, fault) ==
    Discard(Table_iptables(fw, chain.table, <<Opt("R"), chain.name, PosStr(pos)>> \o rule, fault))

\* Chain.delete validating after the invocation instead of before it.
Chain_delete_InvokesFirst(fw, chain, rule, pos, fault) ==
    IF rule # None
        THEN Discard(Table_iptables(fw, chain.table, <<Opt("D"), chain.name>> \o rule[1], fault))
    ELSE IF pos # None
        THEN Discard(Table_iptables(fw, chain.table, <<Opt("D"), chain.name, PosStr(pos[1])>>, fault))
    ELSE Step(Raise("ValueError"), fw,
              Table_iptables(fw, chain.table, <<Opt("D"), chain.name>>, fault).calls)

\* rule and pos are optional: None, or Some(value).
Chain_delete(fw, chain, rule, pos, fault) ==
    IF rule # None
        THEN Discard(Table_iptables(fw, chain.table, <<Opt("D"), chain.name>> \o rule[1], fault))
    ELSE IF pos # None
        THEN Discard(Table_iptables(fw, chain.table, <<Opt("D"), chain.name, PosStr(pos[1])>>, fault))
    ELSE Step(Raise("ValueError"), fw, <<>>)

Chain_flush(fw, chain, fault) ==
    Discard(Table_iptables(fw, chain.table, <<Opt("F"), chain.name>>, fault))

----------------------------------------------------------------------------
(* class Table, its methods, and ChainFinder.__getitem__.                  *)

\* The try statement of Table.chain_exists.
ChainExistsStep(s) ==
    IF s.outcome.kind = "CommandError" THEN Step(Return(FALSE), s.fw, s.calls)
    ELSE IF s.outcome.kind = "return" THEN Step(Return(TRUE), s.fw, s.calls)
    ELSE s

Table_chain_exists(fw, table, chain, fault) ==
    ChainExistsStep(Table_iptables(fw, table, <<Opt("S"), chain>>, fault))

RECURSIVE ChainsOfLines_PolicyOnly(_, _)
\* The loop of Table.list_chains looking at -P lines only.
ChainsOfLines_PolicyOnly(lines, acc) ==
    IF lines = <<>> THEN Return(acc)
    ELSE LET rule == RuleFromString(Head(lines)) IN
        IF rule.kind # "return" THEN rule
        ELSE IF rule.val = <<>> THEN Raise("IndexError")
        ELSE IF rule.val[1] \in {Opt("P")} THEN
            IF Len(rule.val) < 2 THEN Raise("IndexError")
            ELSE ChainsOfLines_PolicyOnly(Tail(lines), Append(acc, rule.val[2]))
        ELSE ChainsOfLines_PolicyOnly(Tail(lines), acc)

RECURSIVE ChainsOfLines(_, _)
\* The loop of Table.list_chains over the lines of the listing.
ChainsOfLines(lines, acc) ==
    IF lines = <<>> THEN Return(acc)
    ELSE LET rule == RuleFromString(Head(lines)) IN
        IF rule.kind # "return" THEN rule
        ELSE IF rule.val = <<>> THEN Raise("IndexError")
        ELSE IF rule.val[1] \in {Opt("P"), Opt("N")} THEN
            IF Len(rule.val) < 2 THEN Raise("IndexError")
            ELSE ChainsOfLines(Tail(lines), Append(acc, rule.val[2]))
        ELSE ChainsOfLines(Tail(lines), acc)

ListChainsStep(s) ==
    IF s.outcome.kind # "return" THEN s
    ELSE Step(ChainsOfLines(splitlines(s.outcome.val), <<>>), s.fw, s.calls)

Table_list_chains(fw, table, fault) ==
    ListChainsStep(Table_iptables(fw, table, <<Opt("S")>>, fault))

\* Table.get_chain after its call of chain_exists came back as s.
GetChainStep(s, table, chain) ==
    IF s.outcome.kind # "return" THEN s
    ELSE IF ~s.outcome.val THEN Step(Raise("KeyError"), s.fw, s.calls)
    ELSE Step(Return(Chain(chain, table)), s.fw, s.calls)

Table_get_chain(fw, table, chain, fault) ==
    GetChainStep(Table_chain_exists(fw, table, chain, fault), table, chain)

ChainFinder_getitem(fw, table, k, fault) == Table_get_chain(fw, table, k, fault)

\* The step g run after the step s: g's outcome, the invocations of both.
AndThen(s, g) == Step(g.outcome, g.fw, s.calls \o g.calls)

\* Table.create_chain after its -N invocation came back as s.
CreateChainStep(s, table, chain, fault) ==
    IF s.outcome.kind # "return" THEN s
    ELSE AndThen(s, ChainFinder_getitem(s.fw, table, chain, fault))

\* Two invocations: faults[1] befalls the first, faults[2] the second.
Table_create_chain(fw, table, chain, faults) ==
    CreateChainStep(Table_iptables(fw, table, <<Opt("N"), chain>>, faults[1]),
                    table, chain, faults[2])

Table_delete_chain(fw, table, chain, fault) ==
    Discard(Table_iptables(fw, table, <<Opt("X"), chain>>, fault))

Table_flush_all(fw, table, fault) ==
    Discard(Table_iptables(fw, table, <<Opt("F")>>, fault))

\* Table has the attribute chains and no attribute chain: reading
\* self.chain raises AttributeError before anything is looked up or run.
Table_rule_exists(fw, table, chain, rule, fault) ==
    Step(Raise("AttributeError"), fw, <<>>)

----------------------------------------------------------------------------
(* The state: the table the iptables command keeps (policy, chainlist,     *)
(* rules), the last operation of the caller with its outcome and the       *)
(* invocations of cmd it made (res), and, when res is a query, the         *)
(* operation it immediately follows if that was a successful mutation      *)
(* (prev).  The wrapper keeps no state of its own; the counters -Z resets  *)
(* are not part of the table modelled here.                                *)

FW == [policy |-> policy, chainlist |-> chainlist, rules |-> rules]

\* The module-level table filter = Table('filter').
filterTable == Table(filter, None)

\* The inputs of the operations.
RuleSet == {<<Opt("j"), ACCEPT>>, <<Opt("j"), LOGGING>>}
Positions == 1..MaxRules
PolicyValues == {ACCEPT, DROP}

Count(q, x) == Cardinality({i \in DOMAIN q : q[i] = x})

RECURSIVE RulesIn(_)
RulesIn(S) ==
    IF S = {} THEN 0
    ELSE LET c == CHOOSE x \in S : TRUE IN Len(rules[c]) + RulesIn(S \ {c})

\* The number of rules of the table, all chains together.
TotalRules == RulesIn(ChainNames)

NoPrev == [op |-> "other", chain |-> None, rule |-> None, value |-> None, copies |-> 0]

Tracked == {"append", "delete", "create_chain", "delete_chain", "policy_set"}
Observers == {"rule_exists", "list_chains", "policy"}

\* What the next state remembers of the operation r.
Summary(r) ==
    IF r.op \in Tracked /\ r.outcome.kind = "return" /\ (r.op = "delete" => r.rule # None)
    THEN [op |-> r.op, chain |-> r.chain, rule |-> r.rule, value |-> r.value,
          copies |-> r.copies]
    ELSE NoPrev

\* The caller runs one operation: s is the step it amounts to.
Call(op, chain, rule, pos, value, s) ==
    /\ policy' = s.fw.policy
    /\ chainlist' = s.fw.chainlist
    /\ rules' = s.fw.rules
    /\ res' = [op |-> op, chain |-> chain, rule |-> rule, pos |-> pos, value |-> value,
               copies |-> IF rule = None THEN 0 ELSE Count(rules[chain], rule[1]),
               outcome |-> s.outcome, calls |-> s.calls]
    /\ prev' = IF op \in Observers THEN Summary(res) ELSE NoPrev

InitTable ==
    /\ policy = [c \in Range(BuiltinChains) |-> ACCEPT]
    /\ chainlist = <<>>
    /\ rules = [c \in ChainNames |-> <<>>]

Init ==
    /\ InitTable
    /\ res = [op |-> "init", chain |-> None, rule |-> None, pos |-> None, value |-> None,
              copies |-> 0, outcome |-> Return(None), calls |-> <<>>]
    /\ prev = NoPrev

DoRules ==
    \E c \in ChainNames, f \in Faults :
        Call("rules", c, None, None, None, Chain_rules(FW, Chain(c, filterTable), f))

DoRuleExists ==
    \E c \in ChainNames, r \in RuleSet, f \in Faults :
        Call("rule_exists", c, Some(r), None, None,
             Chain_rule_exists(FW, Chain(c, filterTable), r, f))

DoPolicy ==
    \E c \in ChainNames, f \in Faults :
        Call("policy", c, None, None, None, Chain_policy(FW, Chain(c, filterTable), f))

DoPolicySet ==
    \E c \in ChainNames, v \in PolicyValues, f \in Faults :
        Call("policy_set", c, None, None, Some(v),
             Chain_policy_set(FW, Chain(c, filterTable), v, f))

DoAppend ==
    \E c \in ChainNames, r \in RuleSet, f \in Faults :
        /\ TotalRules < MaxRules
        /\ Call("append", c, Some(r), None, None,
                Chain_append(FW, Chain(c, filterTable), r, f))

DoInsert ==
    \E c \in ChainNames, r \in RuleSet, p \in Positions, f \in Faults :
        /\ TotalRules < MaxRules
        /\ Call("insert", c, Some(r), Some(p), None,
                Chain_insert(FW, Chain(c, filterTable), r, p, f))

DoReplace ==
    \E c \in ChainNames, r \in RuleSet, p \in Positions, f \in Faults :
        Call("replace", c, Some(r), Some(p), None,
             Chain_replace(FW, Chain(c, filterTable), p, r, f))

\* delete with a rule, with a position, with both or with neither.
DeleteArgs ==
    {<<Some(x), None>> : x \in RuleSet} \cup {<<None, Some(n)>> : n \in Positions}
    \cup {<<Some(x), Some(1)>> : x \in RuleSet} \cup {<<None, None>>}

DoDelete ==
    \E c \in ChainNames, a \in DeleteArgs, f \in Faults :
        Call("delete", c, a[1], a[2], None,
             Chain_delete(FW, Chain(c, filterTable), a[1], a[2], f))

DoFlush ==
    \E c \in ChainNames, f \in Faults :
        Call("flush", c, None, None, None, Chain_flush(FW, Chain(c, filterTable), f))

DoChainExists ==
    \E c \in ChainNames, f \in Faults :
        Call("chain_exists", c, None, None, None, Table_chain_exists(FW, filterTable, c, f))

DoListChains ==
    \E f \in Faults :
        Call("list_chains", None, None, None, None, Table_list_chains(FW, filterTable, f))

\* filter.chains[c], which is filter.get_chain(c).
DoGetChain ==
    \E c \in ChainNames, f \in Faults :
        Call("get_chain", c, None, None, None, ChainFinder_getitem(FW, filterTable, c, f))

DoCreateChain ==
    \E c \in ChainNames, f1 \in Faults, f2 \in Faults :
        Call("create_chain", c, None, None, None,
             Table_create_chain(FW, filterTable, c, <<f1, f2>>))

DoDeleteChain ==
    \E c \in ChainNames, f \in Faults :
        Call("delete_chain", c, None, None, None, Table_delete_chain(FW, filterTable, c, f))

DoFlushAll ==
    \E f \in Faults :
        Call("flush_all", None, None, None, None, Table_flush_all(FW, filterTable, f))

DoTableRuleExists ==
    \E c \in ChainNames, r \in RuleSet, f \in Faults :
        Call("table_rule_exists", c, Some(r), None, None,
             Table_rule_exists(FW, filterTable, c, r, f))

Next ==
    \/ DoRules \/ DoRuleExists \/ DoPolicy \/ DoPolicySet
    \/ DoAppend \/ DoInsert \/ DoReplace \/ DoDelete \/ DoFlush
    \/ DoChainExists \/ DoListChains \/ DoGetChain
    \/ DoCreateChain \/ DoDeleteChain \/ DoFlushAll
    \/ DoTableRuleExists

Spec == Init /\ [][Next]_vars

----------------------------------------------------------------------------
(* Rule as a pure function: the initial state draws a token sequence, the  *)
(* action builds the Rule from the sequence, from the space-joined string  *)
(* and from the rendering of the first.                                    *)

TokenChars == {"a", SP, SQ, DQ, BS}
\* Tokens of no, one or two characters.
Tokens == {<<>>} \cup {<<a>> : a \in TokenChars} \cup {<<a, b>> : a, b \in TokenChars}
TokenSeqs == UNION {[1..n -> Tokens] : n \in 1..MaxTokens}

InitRule ==
    /\ InitTable
    /\ prev = NoPrev
    /\ \E T \in TokenSeqs : res = [op |-> "tokens", tokens |-> T]

DoRule ==
    /\ res.op = "tokens"
    /\ res' = [op |-> "Rule", tokens |-> res.tokens,
               fromTokens |-> RuleFromTokens(res.tokens),
               fromString |-> RuleFromString(Join(<<SP>>, res.tokens)),
               again |-> RuleFromString(RuleStr(RuleFromTokens(res.tokens).val))]
    /\ UNCHANGED <<policy, chainlist, rules, prev>>

NextRule == DoRule

SpecRule == InitRule /\ [][NextRule]_vars

----------------------------------------------------------------------------
(* The listing parsers as pure functions: the initial state draws a        *)
(* listing, the action runs the loops of Table.list_chains and Chain.rules *)
(* on its lines.  A line is given by the tokens the command means (toks)   *)
(* and by the text it prints; wellformed is FALSE for a text that is no    *)
(* sequence of shell words.                                                *)

Line(toks) == [toks |-> toks, text |-> Join(<<SP>>, toks), wellformed |-> TRUE]

ListingLineSet ==
    { Line(<<Opt("P"), INPUT, ACCEPT>>),
      Line(<<Opt("N"), LOGGING>>),
      Line(<<Opt("A"), INPUT, Opt("j"), LOGGING>>),
      Line(<<Opt("F"), INPUT>>),
      Line(<<Opt("P")>>),
      Line(<<>>),
      [toks |-> <<Opt("A"), INPUT, <<"a", SP, "b">>>>,
       text |-> Join(<<SP>>, <<Opt("A"), INPUT, <<DQ, "a", SP, "b", DQ>>>>),
       wellformed |-> TRUE],
      [toks |-> <<>>,
       text |-> Join(<<SP>>, <<Opt("A"), INPUT, <<DQ, "a">>>>),
       wellformed |-> FALSE] }

Listings == UNION {[1..n -> ListingLineSet] : n \in 0..MaxLines}

\* The captured stdout of a listing: each line with its line end.
ListingText(ls) == Concat([i \in DOMAIN ls |-> ls[i].text \o <<NL>>])

InitParse ==
    /\ InitTable
    /\ prev = NoPrev
    /\ \E ls \in Listings : res = [op |-> "listing", listing |-> ls]

DoParse ==
    /\ res.op = "listing"
    /\ res' = [op |-> "parsed", listing |-> res.listing,
               list_chains |-> ChainsOfLines(splitlines(ListingText(res.listing)), <<>>),
               rules |-> RulesOfLines(splitlines(ListingText(res.listing)), <<>>)]
    /\ UNCHANGED <<policy, chainlist, rules, prev>>

NextParse == DoParse

SpecParse == InitParse /\ [][NextParse]_vars

----------------------------------------------------------------------------
(* The claims.                                                             *)

\* The outcome o is the return of the value v.
Returned(o, v) == o.kind = "return" /\ o.val = v

\* The one invocation of the last operation.
TheCall == res.calls[1]

\* C1: Chain.rule_exists(rule) makes one -C invocation (chain name, rule
\* tokens) and maps every exit status: 0 returns True, exactly 1 returns
\* False, any other status is a CommandError raised to the caller.
C1_RuleExistsMapsEveryStatus ==
    res.op = "rule_exists" =>
        /\ Len(res.calls) = 1
        /\ TheCall.argv = Prefix(filterTable) \o <<Opt("C"), res.chain>> \o res.rule[1]
        /\ (TheCall.returncode = 0 => Returned(res.outcome, TRUE))
        /\ (TheCall.returncode = 1 => Returned(res.outcome, FALSE))
        /\ (TheCall.returncode \notin {0, 1} => res.outcome.kind = "CommandError")

\* C2: Chain.delete with neither rule nor pos raises ValueError, makes no
\* invocation of cmd and leaves the table of the command as it was.
C2_DeleteWithNeitherIsLocal ==
    [][(res'.op = "delete" /\ res'.rule = None /\ res'.pos = None) =>
          /\ res'.outcome.kind = "ValueError"
          /\ res'.calls = <<>>
          /\ UNCHANGED <<policy, chainlist, rules>>]_vars

C2_Witness ==
    /\ res.op = "delete" /\ res.rule = None /\ res.pos = None
    /\ res.outcome.kind = "ValueError"
    /\ res.calls = <<>>
    /\ rules[res.chain] # <<>>

\* C3: every invocation of cmd whose process exits nonzero, whatever its
\* stdout and stderr (an empty stderr too), raises a CommandError carrying
\* the argument vector, the status, stdout and stderr; on status 0 cmd
\* returns stdout.
C3_CmdFailureIsCommandError ==
    res.op \notin {"init"} =>
        \A i \in DOMAIN res.calls :
            IF res.calls[i].returncode # 0
            THEN /\ res.calls[i].outcome.kind = "CommandError"
                 /\ res.calls[i].outcome.val =
                        [command |-> res.calls[i].argv,
                         returncode |-> res.calls[i].returncode,
                         stdout |-> res.calls[i].stdout,
                         stderr |-> res.calls[i].stderr]
            ELSE Returned(res.calls[i].outcome, res.calls[i].stdout)

\* The last operation is rule_exists, its process ran undisturbed, and it
\* immediately follows a successful append or delete of the same rule on
\* the same chain.
RuleExistsFollows(op) ==
    /\ res.op = "rule_exists"
    /\ TheCall.fault = NoFault
    /\ prev.op = op
    /\ prev.chain = res.chain
    /\ prev.rule = res.rule

\* C4, as amended: rule_exists(r) returns True immediately after a
\* successful append(r), and False immediately after a successful
\* delete(rule=r) that removed the only copy of r in the chain.
C4_RuleExistsAfterAppendAndSoleDelete ==
    /\ RuleExistsFollows("append") => Returned(res.outcome, TRUE)
    /\ (RuleExistsFollows("delete") /\ prev.copies = 1) => Returned(res.outcome, FALSE)

C4_Witness ==
    /\ RuleExistsFollows("delete")
    /\ prev.copies = 1
    /\ Returned(res.outcome, FALSE)

\* C4, as stated: rule_exists(r) returns True immediately after a
\* successful append(r) and False immediately after a successful
\* delete(rule=r), after any prior operations on the chain.
C4_RuleExistsAfterAppendAndDelete ==
    /\ RuleExistsFollows("append") => Returned(res.outcome, TRUE)
    /\ RuleExistsFollows("delete") => Returned(res.outcome, FALSE)

\* C5: a successful create_chain(name) returns the Chain of that name
\* bound to the table and list_chains() right after it includes the name;
\* list_chains() right after a successful delete_chain(name) does not.
C5_ListChainsFollowsCreateAndDelete ==
    /\ (res.op = "create_chain" /\ Len(res.calls) = 2 /\ res.calls[2].fault = NoFault) =>
            Returned(res.outcome, Chain(res.chain, filterTable))
    /\ (res.op = "create_chain" /\ res.outcome.kind = "return") =>
            res.outcome.val = Chain(res.chain, filterTable)
    /\ (res.op = "list_chains" /\ TheCall.fault = NoFault) =>
            /\ res.outcome.kind = "return"
            /\ prev.op = "create_chain" => prev.chain \in Range(res.outcome.val)
            /\ prev.op = "delete_chain" => prev.chain \notin Range(res.outcome.val)

C5_Witness ==
    /\ res.op = "list_chains"
    /\ prev.op = "create_chain"
    /\ res.outcome.kind = "return"
    /\ prev.chain \in Range(res.outcome.val)
    /\ INPUT \in Range(res.outcome.val)

\* C6: assigning policy V makes one -P invocation; reading policy makes
\* one -S invocation for the chain every time (nothing is cached) and
\* returns the policy token of the chain's -P line, which right after a
\* successful assignment of V is V.
C6_PolicyReadFollowsSet ==
    /\ res.op = "policy_set" =>
            /\ Len(res.calls) = 1
            /\ TheCall.argv = Prefix(filterTable) \o <<Opt("P"), res.chain, res.value[1]>>
    /\ res.op = "policy" =>
            /\ Len(res.calls) = 1
            /\ TheCall.argv = Prefix(filterTable) \o <<Opt("S"), res.chain>>
            /\ res.outcome.kind = "return" => res.outcome.val = policy[res.chain]
            /\ (TheCall.fault = NoFault /\ prev.op = "policy_set" /\ prev.chain = res.chain) =>
                    Returned(res.outcome, prev.value[1])

C6_Witness ==
    /\ res.op = "policy"
    /\ prev.op = "policy_set"
    /\ prev.chain = res.chain
    /\ Returned(res.outcome, DROP)

\* What the claim C7 expects of a listing: the chain-name token of each -P
\* or -N line, and the tokens after the chain name of each -A line.
ExpectedChains(ls) ==
    LET sel == SelectSeq(ls, LAMBDA l : l.toks # <<>> /\ l.toks[1] \in {Opt("P"), Opt("N")})
    IN [i \in DOMAIN sel |-> sel[i].toks[2]]

ExpectedRules(ls) ==
    LET sel == SelectSeq(ls, LAMBDA l : l.toks # <<>> /\ l.toks[1] = Opt("A"))
    IN [i \in DOMAIN sel |-> SubSeq(sel[i].toks, 3, Len(sel[i].toks))]

\* Every line is a sequence of shell words with a leading token.
LinesTokenize(ls) == \A i \in DOMAIN ls : ls[i].wellformed /\ ls[i].toks # <<>>
\* Every -P or -N line has a chain-name token.
MarkersNamed(ls) ==
    \A i \in DOMAIN ls : ls[i].toks[1] \in {Opt("P"), Opt("N")} => Len(ls[i].toks) >= 2

TheExample ==
    <<Line(<<Opt("P"), INPUT, ACCEPT>>), Line(<<Opt("N"), LOGGING>>),
      Line(<<Opt("A"), INPUT, Opt("j"), LOGGING>>)>>

\* C7, as amended: for every listing whose lines each tokenize to at least
\* one token, rules() yields in order the tokens after the chain name of
\* each -A line and, when each -P or -N line has a chain-name token,
\* list_chains() yields in order the chain name of each -P or -N line;
\* other lines are ignored.  The listing -P INPUT ACCEPT, -N LOGGING,
\* -A INPUT -j LOGGING gives [INPUT, LOGGING] and [[-j, LOGGING]].
C7_ParsersOnTokenizedListings ==
    res.op = "parsed" =>
        /\ LinesTokenize(res.listing) =>
            /\ res.rules = Return(ExpectedRules(res.listing))
            /\ MarkersNamed(res.listing) =>
                    res.list_chains = Return(ExpectedChains(res.listing))
        /\ res.listing = TheExample =>
            /\ res.list_chains = Return(<<INPUT, LOGGING>>)
            /\ res.rules = Return(<<<<Opt("j"), LOGGING>>>>)

C7_Witness ==
    /\ res.op = "parsed"
    /\ res.listing = TheExample
    /\ res.list_chains = Return(<<INPUT, LOGGING>>)
    /\ res.rules = Return(<<<<Opt("j"), LOGGING>>>>)

\* C7, as stated: for every listing, any finite sequence of lines, both
\* parsers yield those lists.
C7_ParsersOnEveryListing ==
    res.op = "parsed" =>
        /\ res.list_chains.kind = "return"
        /\ res.rules.kind = "return"
        /\ res.rules = Return(ExpectedRules(res.listing))
        /\ res.list_chains = Return(ExpectedChains(res.listing))

\* C8: get_chain(name), and chains[name], makes one -S probe of the chain;
\* a probe that fails with any nonzero status gives KeyError, never a
\* CommandError; a probe that succeeds gives the Chain of that name bound
\* to the table.
C8_GetChainProbesOnce ==
    res.op = "get_chain" =>
        /\ Len(res.calls) = 1
        /\ TheCall.argv = Prefix(filterTable) \o <<Opt("S"), res.chain>>
        /\ (TheCall.returncode # 0 => res.outcome.kind = "KeyError")
        /\ (TheCall.returncode = 0 => Returned(res.outcome, Chain(res.chain, filterTable)))

\* C9: Table.rule_exists(chain_name, rule) looks the chain up and returns
\* what that Chain's rule_exists(rule) returns: True, False or the raised
\* error, and KeyError when the chain does not exist.
C9_TableRuleExistsDelegates ==
    res.op = "table_rule_exists" =>
        IF ~ChainPresent(FW, res.chain) THEN res.outcome.kind = "KeyError"
        ELSE res.outcome.kind =
                Chain_rule_exists(FW, Chain(res.chain, filterTable), res.rule[1], NoFault).outcome.kind

\* No character of any token of T is in the set chars.
FreeOf(T, chars) == \A i \in DOMAIN T : \A j \in DOMAIN T[i] : T[i][j] \notin chars

\* C10, as amended: for every non-empty sequence T of non-empty tokens
\* without whitespace, quote or backslash characters, Rule(' '.join(T))
\* equals Rule(T) and Rule(str(Rule(T))) equals Rule(T).
C10_PlainTokensRoundTrip ==
    (/\ res.op = "Rule"
     /\ \A i \in DOMAIN res.tokens : res.tokens[i] # <<>>
     /\ FreeOf(res.tokens, whitespace \cup quotes \cup escape)) =>
        /\ res.fromString = res.fromTokens
        /\ res.again = res.fromTokens

C10_Witness ==
    /\ res.op = "Rule"
    /\ Len(res.tokens) = 2
    /\ res.tokens[1] # <<>> /\ res.tokens[2] # <<>>
    /\ FreeOf(res.tokens, whitespace \cup quotes \cup escape)
    /\ res.fromString = Return(res.tokens)
    /\ res.again = Return(res.tokens)

\* C10, as stated: for every non-empty sequence T of tokens without
\* whitespace, Rule(' '.join(T)) equals Rule(T) and Rule(str(Rule(T)))
\* equals Rule(T).
C10_WhitespaceFreeTokensRoundTrip ==
    (res.op = "Rule" /\ FreeOf(res.tokens, whitespace)) =>
        /\ res.fromString = res.fromTokens
        /\ res.again = res.fromTokens

====
